---- MODULE Spec2Model ----
(***************************************************************************)
(* The Memora API for one identity (memora_id = 1).                        *)
(*                                                                         *)
(* Ingestion job state machine: MemoraService (app/services/memora.py),    *)
(* the background job process_social_media_data                            *)
(* (app/tasks/social_media_processor.py),                                  *)
(* the per-identity Datastore file memora_1.db and the extraction working  *)
(* directory uploads/extract_memora_1.                                     *)
(*                                                                         *)
(* Granularity: every handler is an async def run on one event loop, so    *)
(* control changes hands only at an await that performs I/O (db.execute,   *)
(* db.commit, db.refresh).  One action is the code between two such        *)
(* awaits; the database read or write of the await is part of the action   *)
(* that issues or receives it.                                             *)
(*                                                                         *)
(* Retrieval workflow: one turn of MemoraAgent.generate_response           *)
(* (app/agents/memora_agent.py), one action per node of the graph.         *)
(*                                                                         *)
(* Media annotation: one call of process_files_batch                       *)
(* (app/tasks/social_media_processor.py), one action per model load and    *)
(* per round of its loops.                                                 *)
(*                                                                         *)
(* DatabaseHandler (app/utils/db_handler.py): the functions that turn      *)
(* structured files and media records into tables, each applied to         *)
(* arguments drawn from bounded sets.                                      *)
(***************************************************************************)
EXTENDS Integers, Sequences, FiniteSets, TLC

\* ---------------------------------------------------------------- bounds
MaxJobs == 2      \* slots for the requests and jobs that are under way at once

Jobs == 1..MaxJobs

\* ------------------------------------------------------- MemoraStatus enum
BASIC_INFO_COMPLETED == "basic_info_completed"
VIDEO_INFO_COMPLETED == "video_info_completed"
ERROR_PROCESSING_VIDEO == "error_processing_video"
PROCESSING_SOCIALMEDIA_DATA == "processing_socialmedia_data"
CONCLUDED == "concluded"
CONCLUDED_WITH_ANALYZER_ERROR == "concluded_with_analyzer_error"
ERROR == "error"

MemoraStatus ==
    { BASIC_INFO_COMPLETED, VIDEO_INFO_COMPLETED, ERROR_PROCESSING_VIDEO,
      PROCESSING_SOCIALMEDIA_DATA, CONCLUDED, CONCLUDED_WITH_ANALYZER_ERROR,
      ERROR }

\* No row with id 1 in table memoras: not inserted yet, or deleted.
NoRow == "no_row"
Deleted == "deleted"
\* Python's None (a NULL column, an unassigned local).
None == "None"
\* A profile column that holds NULL.
NullText == <<"null", 0>>

VARIABLES
    status,          \* memoras.status of the identity; NoRow, Deleted without row
    status_message,  \* memoras.status_message
    bio,             \* memoras.bio
    description,     \* memoras.description
    speak_pattern,   \* memoras.speak_pattern
    db_file,         \* memora_1.db: [exists, tables]
    zip_file,        \* uploads/memora_1.zip: None, or the archive staged there
    extract_dir,     \* uploads/extract_memora_1: [exists, files]
    pc,              \* pc[j]: position of the request or job in slot j
    origin,          \* history: what put slot j's job on the queue, kept until
                     \* the job's first await resumes
    extract_path,    \* extract_path[j]: the job's local, None until assigned
    exc,             \* exc[j]: the exception e bound by the job's outer except clause
    job_status,      \* history: the status the job in slot j committed last
                     \* (NoRow: it found no record), None for a request; kept
                     \* after the job's return until another coroutine returns
    processing_seen  \* history: the request that queued job j committed
                     \* PROCESSING_SOCIALMEDIA_DATA, kept as long as origin

\* One conversational turn of MemoraAgent.generate_response
\* (app/agents/memora_agent.py).
VARIABLES
    state,           \* the ExtendedAgentState passed from node to node
    node,            \* the node of the workflow that runs next; "idle" between turns
    completed,       \* history: the nodes that have returned in this turn
    turn_exc,        \* the exception that left app.invoke in this turn, else None
    answer           \* what generate_response returned for the turn, else None

\* Calls of the DatabaseHandler functions (app/utils/db_handler.py) on their
\* own: the arguments, and what the calls left behind.
VARIABLES
    rel_path,        \* os.path.relpath(file_path, base_path) of a structured
                     \* file: its parts, each a sequence of characters
    table_name,      \* what get_table_name_from_path returned, <<>> before
    structured_file, \* the content of the structured file at rel_path
    all_dataframes,  \* all_dataframes of the job: the tables read so far
    media_data,      \* the argument data of save_media_data
    call             \* the DatabaseHandler function that returned last

\* One call of process_files_batch (app/tasks/social_media_processor.py).
VARIABLES
    walked,          \* the files os.walk finds under the working directory
    caller,          \* who called process_files_batch: "job" (line 308), "direct"
    file_paths,      \* the argument file_paths
    image_model,     \* the locals image_processor, image_model: None until loaded
    whisper_model,   \* the local whisper_model: None until loaded
    results,         \* the local results
    cursor,          \* the position of the running for loop in its list
    batch_pc,        \* the statement of process_files_batch that runs next
    events,          \* history: the model loads and the files processed, in order
    batch_return     \* how the call ended

memora == <<status, status_message, bio, description, speak_pattern>>
files == <<db_file, zip_file, extract_dir>>
jobs == <<pc, origin, extract_path, exc, job_status, processing_seen>>
ingestion == <<memora, files, jobs>>
turn == <<state, node, completed, turn_exc, answer>>
\* What the ingestion machine leaves alone.
handler == <<rel_path, table_name, structured_file, all_dataframes, media_data, call>>
batch == <<walked, caller, file_paths, image_model, whisper_model, results, cursor,
           batch_pc, events, batch_return>>
others == <<turn, handler, batch>>
vars == <<ingestion, others>>

\* select(DBMemora).filter(DBMemora.id == memora_id) ... scalar_one_or_none()
\* returns a row.
Found == status \notin {NoRow, Deleted}

\* ------------------------------------------------------------------ files
db_path == "memora_1.db"
file_path == "uploads/memora_1.zip"
ExtractPath == "uploads/extract_memora_1"

\* A row is the set of its <<column, value>> cells; a table is a name and
\* the sequence of its rows.
Table(name, rows) == [name |-> name, rows |-> rows]

AbsentDb == [exists |-> FALSE, tables |-> {}]
EmptyDb == [exists |-> TRUE, tables |-> {}]
\* A Datastore left on disk by an earlier run of the service.
StoredDb ==
    [exists |-> TRUE,
     tables |-> { Table("profile__info", << {<<"username", "a">>} >>),
                  Table("media__posts",
                        << { <<"date", "201807">>, <<"filename", "p1.jpg">>,
                             <<"description", "">>, <<"uri", "uploads/posts/201807/p1.jpg">>,
                             <<"text", "">>, <<"metadata", "{}">>,
                             <<"media_type", "image">> } >>) }]

AbsentDir == [exists |-> FALSE, files |-> {}]

\* The archives a caller may stage: an unreadable one, and the archive of
\* the end-to-end scenario (a friends list and one story image).
MalformedZip == "malformed.zip"
FriendsZip == "friends.zip"
Archives == {MalformedZip, FriendsZip}
\* An archive whose friends list comes with a structured file that does not
\* parse.
MixedZip == "mixed.zip"

ArchiveMembers(a) ==
    IF a = FriendsZip THEN {"data/friends.json", "stories/202007/img1.jpg"}
    ELSE IF a = MixedZip THEN {"data/friends.json", "data/broken.json"}
    ELSE {}

\* ------------------------------------------------------- Profile Synthesis
\* The agent's output is a sequence of tokens: prose, code fences, braces and
\* one token per "key": "value" member of the JSON object.
ProfileKeys == {"short_bio", "detailed_profile", "speak_pattern"}
\* The two code-fence markers: three backquotes followed by json, and three
\* backquotes alone.
Fences == {"fence_json", "fence"}

\* response_str.replace(fence_json, "").replace(fence, "")
StripFences(r) == SelectSeq(r, LAMBDA t : t \notin Fences)

\* response_str.find("{"), 0 standing for the -1 of Python
FindBrace(r) ==
    IF \E i \in 1..Len(r) : r[i] = "{"
    THEN CHOOSE i \in 1..Len(r) : r[i] = "{" /\ \A k \in 1..(i - 1) : r[k] # "{"
    ELSE 0

\* if start_index != -1: response_str = response_str[start_index:]
FromBrace(r) == IF FindBrace(r) # 0 THEN SubSeq(r, FindBrace(r), Len(r)) ELSE r

\* json.loads: one object, nothing before or after it; anything else raises
\* JSONDecodeError.
json_loads(r) ==
    IF /\ Len(r) >= 2
       /\ r[1] = "{"
       /\ r[Len(r)] = "}"
       /\ \A i \in 2..(Len(r) - 1) : r[i] \in ProfileKeys
    THEN [raised |-> FALSE, keys |-> {r[i] : i \in 2..(Len(r) - 1)}, err |-> ""]
    ELSE [raised |-> TRUE, keys |-> {}, err |-> "JSONDecodeError"]

\* One run of UserAnalyzer: whether the agent call succeeds, and what the
\* agent answers.
FullObject == <<"{", "short_bio", "detailed_profile", "speak_pattern", "}">>
AgentOutputs ==
    { FullObject,
      <<"prose", "fence_json">> \o FullObject \o <<"fence">>,
      <<"{", "short_bio", "detailed_profile", "speak_pattern">>,
      <<"{", "short_bio", "speak_pattern", "}">>,
      <<"{", "short_bio", "detailed_profile", "}">> }
AnalyzerRuns ==
    { [invoke_ok |-> TRUE, output |-> o] : o \in AgentOutputs }
    \cup { [invoke_ok |-> FALSE, output |-> <<>>] }

\* A connect that always starts from a new, empty file.
UserAnalyzer_create(db) == EmptyDb

\* UserAnalyzer.__init__ opens sqlite:///memora_1.db and lists its tables
\* before anything else: SQLite creates the file, empty, when it is absent.
UserAnalyzer_connect(db) == IF db.exists THEN db ELSE EmptyDb

\* UserAnalyzer(db_path).analyze_user(language): the parsed dict, or the
\* exception raised on the way.
analyze_user(run) ==
    IF ~run.invoke_ok THEN [raised |-> TRUE, keys |-> {}, err |-> "APIError"]
    ELSE json_loads(FromBrace(StripFences(run.output)))

\* The handlers read analysis_results["short_bio"], ["detailed_profile"],
\* ["speak_pattern"] in this order; the first missing key raises KeyError.
\* KeysRead is the number of reads that succeed.
KeysRead(res) ==
    IF res.raised \/ "short_bio" \notin res.keys THEN 0
    ELSE IF "detailed_profile" \notin res.keys THEN 1
    ELSE IF "speak_pattern" \notin res.keys THEN 2
    ELSE 3

\* The exception the handler's except clause catches when KeysRead < 3.
AnalysisError(res) == IF res.raised THEN res.err ELSE "KeyError"

\* The profile text Profile Synthesis yields, and a text the owner typed in.
Synthesized == <<"synthesized", 0>>
UserText == <<"user", 0>>

\* str(e): the text of an exception, whatever its class, is one placeholder.
str(e) == "<e>"

\* ---------------------------------------------------- retrieval workflow
\* initial_state of generate_response for a question; the persona fields
\* are those of the identity, chat_history that of a first message.
initial_state(question) ==
    [query |-> question, vector_response |-> None, db_response |-> None,
     merged_response |-> None, memora_id |-> 1, memora_name |-> "Ana",
     memora_bio |-> "bio", memora_description |-> "description",
     speak_pattern |-> "pattern", chat_history |-> "No previous messages",
     output |-> None]

\* How a call of generate_response ended: it returned value, or an exception
\* left it.  NoAnswer: it has not ended.
Returned(value) == [raised |-> FALSE, value |-> value]
NoAnswer == Returned(None)

\* No turn has been asked for.
NoTurn ==
    /\ state = initial_state("")
    /\ node = "idle"
    /\ completed = {}
    /\ turn_exc = None
    /\ answer = NoAnswer

\* ------------------------------------------------ structured file content
\* A parsed JSON value: a scalar, a list or an object.  The members of a list
\* carry the empty key.
Scalar(x) == [type |-> "scalar", scalar |-> x, items |-> <<>>]
Member(key, value) == [key |-> key, value |-> value]
List(values) ==
    [type |-> "list", scalar |-> "",
     items |-> [i \in DOMAIN values |-> Member("", values[i])]]
Dict(members) == [type |-> "dict", scalar |-> "", items |-> members]

\* A pandas DataFrame: its columns and its rows (a row is the set of its
\* <<column, value>> cells).
DataFrame(columns, rows) == [columns |-> columns, rows |-> rows]

\* What a structured file holds: the JSON value json.load returns, or the
\* tables pd.read_html finds; malformed: the parser raises.
File(data, tables, malformed) ==
    [data |-> data, tables |-> tables, malformed |-> malformed]
NoFile == File(Scalar(""), <<>>, FALSE)

\* No DatabaseHandler function has been called on its own.
NoCall ==
    /\ rel_path = <<>>
    /\ table_name = <<>>
    /\ structured_file = NoFile
    /\ all_dataframes = {}
    /\ media_data = <<>>
    /\ call = "none"

\* process_files_batch has not been called.
NoBatch ==
    /\ walked = <<>>
    /\ caller = "none"
    /\ file_paths = <<>>
    /\ image_model = None
    /\ whisper_model = None
    /\ results = <<>>
    /\ cursor = 1
    /\ batch_pc = "none"
    /\ events = <<>>
    /\ batch_return = Returned(<<>>)

\* ---------------------------------------------------------------- Init
\* No identity record yet, nothing staged, no working directory.  The
\* Datastore file outlives the service process: it is absent, or an earlier
\* run left it behind.
InitIngestion ==
    /\ status = NoRow
    /\ status_message = None
    /\ bio = NullText
    /\ description = NullText
    /\ speak_pattern = NullText
    /\ db_file \in {AbsentDb, StoredDb}
    /\ zip_file = None
    /\ extract_dir = AbsentDir
    /\ pc = [j \in Jobs |-> "idle"]
    /\ origin = [j \in Jobs |-> None]
    /\ extract_path = [j \in Jobs |-> None]
    /\ exc = [j \in Jobs |-> None]
    /\ job_status = [j \in Jobs |-> None]
    /\ processing_seen = [j \in Jobs |-> FALSE]

Init == InitIngestion /\ NoTurn /\ NoCall /\ NoBatch

\* ------------------------------------------------------- MemoraService
\* create_basic_info: the row is inserted with its first status.
create_basic_info ==
    /\ status = NoRow
    /\ status' = BASIC_INFO_COMPLETED
    /\ status_message' = "Basic information provided successfully"
    /\ UNCHANGED <<bio, description, speak_pattern, files, jobs>>
    /\ UNCHANGED others

\* process_video: the voice clone is made, or any step of it raises.
process_video(ok) ==
    /\ Found
    /\ status' = IF ok THEN VIDEO_INFO_COMPLETED ELSE ERROR_PROCESSING_VIDEO
    /\ status_message' = IF ok THEN "Video processed and audio extracted successfully"
                         ELSE "Video processing failed: " \o str("Exception")
    /\ UNCHANGED <<bio, description, speak_pattern, files, jobs>>
    /\ UNCHANGED others

\* MemoraUpdate payloads, one field set each (exclude_unset drops the rest).
Unset == "unset"
UnsetText == <<"unset", 0>>
UpdatePayloads ==
    { [status |-> s, bio |-> UnsetText] : s \in {BASIC_INFO_COMPLETED, CONCLUDED} }
    \cup { [status |-> Unset, bio |-> UserText] }

\* update_memora: setattr for every field the payload sets.
update_memora(m) ==
    /\ Found
    /\ status' = IF m.status # Unset THEN m.status ELSE status
    /\ bio' = IF m.bio # UnsetText THEN m.bio ELSE bio
    /\ UNCHANGED <<status_message, description, speak_pattern, files, jobs>>
    /\ UNCHANGED others

\* delete_memora: the row is deleted; the Datastore file stays on disk.
delete_memora ==
    /\ Found
    /\ status' = Deleted
    /\ status_message' = None
    /\ bio' = NullText
    /\ description' = NullText
    /\ speak_pattern' = NullText
    /\ UNCHANGED <<files, jobs>>
    /\ UNCHANGED others

\* Requests and jobs take the lowest slot that is free; a slot is free
\* ("idle") before its first use and again once its request or job has
\* returned.
Free(j) == pc[j] = "idle"
NextSlot(j) == Free(j) /\ \A k \in Jobs : k < j => ~Free(k)

\* A request or job is taken into slot j at position p.
taken(j, p, how) ==
    /\ NextSlot(j)
    /\ pc' = [pc EXCEPT ![j] = p]
    /\ origin' = [origin EXCEPT ![j] = how]
    /\ job_status' = [job_status EXCEPT ![j] = None]

\* The coroutine returns: its locals are gone.  The history keeps st, the
\* status it committed last, for the coroutine that returned last.
returned(j, st) ==
    /\ pc' = [pc EXCEPT ![j] = "idle"]
    /\ job_status' = [k \in Jobs |-> IF k = j THEN st
                                     ELSE IF Free(k) THEN None ELSE job_status[k]]
    /\ origin' = [origin EXCEPT ![j] = None]
    /\ extract_path' = [extract_path EXCEPT ![j] = None]
    /\ exc' = [exc EXCEPT ![j] = None]
    /\ processing_seen' = [processing_seen EXCEPT ![j] = FALSE]

\* Assignments that never reach the record.
Assigned_none(k, old, res, new) == old

\* The three assignments of a handler from analysis_results, up to the first
\* KeyError: the value of column number k (1 bio, 2 description,
\* 3 speak_pattern) after them.
Assigned(k, old, res, new) == IF KeysRead(res) >= k THEN new ELSE old

\* retry_analysis up to its select.
retry_analysis_begin(j) ==
    /\ taken(j, "retry_select", "retry")
    /\ UNCHANGED <<memora, files, extract_path, exc, processing_seen>>
    /\ UNCHANGED others

\* retry_analysis, no row: None is returned.
retry_analysis_none(j) ==
    /\ pc[j] = "retry_select"
    /\ ~Found
    /\ returned(j, None)
    /\ UNCHANGED <<memora, files>>
    /\ UNCHANGED others

\* The columns of the record as a handler commits them.
Record(st, msg, b, d, sp) ==
    [status |-> st, status_message |-> msg, bio |-> b, description |-> d,
     speak_pattern |-> sp]

\* retry_analysis, lines 388-394 and 399-403: what it commits on the record
\* after the Profile Synthesis of run.
retry_analysis_commit(run) ==
    LET res == analyze_user(run)
        new == Synthesized
        ok == KeysRead(res) = 3
    IN  Record(IF ok THEN CONCLUDED ELSE CONCLUDED_WITH_ANALYZER_ERROR,
               IF ok THEN status_message
               ELSE "Retry failed: " \o str(AnalysisError(res)),
               Assigned(1, bio, res, new),
               Assigned(2, description, res, new),
               Assigned(3, speak_pattern, res, new))

\* retry_analysis, row found: Profile Synthesis is run again and what it
\* yields is committed.
retry_analysis(j, run) ==
    LET r == retry_analysis_commit(run)
    IN  /\ pc[j] = "retry_select"
        /\ Found
        /\ db_file' = UserAnalyzer_connect(db_file)
        /\ bio' = r.bio
        /\ description' = r.description
        /\ speak_pattern' = r.speak_pattern
        /\ status' = r.status
        /\ status_message' = r.status_message
        /\ returned(j, None)
        /\ UNCHANGED <<zip_file, extract_dir>>
        /\ UNCHANGED others

\* ------------------------------------- MemoraService.process_social_media
\* An acceptance that leaves the status as it was read.
accepted_status_kept(old) == old

\* db_memora.status on acceptance of an upload, from the status read.
accepted_status(old) == PROCESSING_SOCIALMEDIA_DATA

\* process_social_media up to its select.
process_social_media_begin(j) ==
    /\ taken(j, "upload_select", "upload")
    /\ UNCHANGED <<memora, files, extract_path, exc, processing_seen>>
    /\ UNCHANGED others

\* No row: None is returned.
process_social_media_none(j) ==
    /\ pc[j] = "upload_select"
    /\ ~Found
    /\ returned(j, None)
    /\ UNCHANGED <<memora, files>>
    /\ UNCHANGED others

\* Row found: the new status and its message are committed before anything
\* is staged.
process_social_media_accept(j) ==
    /\ pc[j] = "upload_select"
    /\ Found
    /\ status' = accepted_status(status)
    /\ status_message' = "Started processing social media data"
    /\ processing_seen' =
           [processing_seen EXCEPT ![j] = (status' = PROCESSING_SOCIALMEDIA_DATA)]
    /\ pc' = [pc EXCEPT ![j] = "upload_committed"]
    /\ UNCHANGED <<bio, description, speak_pattern, files, origin, extract_path, exc,
                   job_status>>
    /\ UNCHANGED others

\* After the commit: the archive is written to uploads/memora_1.zip and the
\* job is added to the background tasks.
process_social_media_stage(j, a) ==
    /\ pc[j] = "upload_committed"
    /\ zip_file' = a
    /\ pc' = [pc EXCEPT ![j] = "queued"]
    /\ UNCHANGED <<memora, db_file, extract_dir, origin, extract_path, exc, job_status,
                   processing_seen>>
    /\ UNCHANGED others

\* After the commit: save_upload_file raises, before the file is opened or
\* while it is written (the file is then cut short); no job is added.
process_social_media_fail(j, opened) ==
    /\ pc[j] = "upload_committed"
    /\ zip_file' = IF opened THEN MalformedZip ELSE zip_file
    /\ status' = ERROR
    /\ status_message' = "Social media processing failed: " \o str("OSError")
    /\ returned(j, None)
    /\ UNCHANGED <<bio, description, speak_pattern, db_file, extract_dir>>
    /\ UNCHANGED others

\* process_social_media_data called by hand, as the tests do, on an archive
\* the caller has put at the path.
invoke(j, a) ==
    /\ taken(j, "queued", "direct")
    /\ zip_file' = a
    /\ UNCHANGED <<memora, db_file, extract_dir, extract_path, exc, processing_seen>>
    /\ UNCHANGED others

\* --------------------------------------------- process_social_media_data
\* DatabaseHandler.create_memora_database(memora_id): class DatabaseHandler
\* defines generate_conn_string, get_table_name_from_path, process_json_file,
\* process_html_file, save_dataframes, save_media_data,
\* get_tables_that_contains and read_table, and no create_memora_database, so
\* evaluating the attribute raises AttributeError.
create_memora_database == [raised |-> TRUE, err |-> "AttributeError"]

\* zipfile.ZipFile(file_path, 'r'): the exception it raises, None if it opens.
ZipFile(z) ==
    IF z = None THEN "FileNotFoundError"
    ELSE IF z = MalformedZip THEN "BadZipFile"
    ELSE None

\* zip_ref.extractall(extract_path): the members are written under the
\* directory, which is made again if it is gone.
extractall(dir, z) == [exists |-> TRUE, files |-> dir.files \cup ArchiveMembers(z)]

\* Lines 266-275, once the record is found: open and extract the archive,
\* scan the tree, create the database.  The working directory afterwards,
\* and the exception that ends the stage there (None if nothing raises).
extraction(dir, z) ==
    IF ZipFile(z) # None THEN [dir |-> dir, err |-> ZipFile(z)]
    ELSE IF create_memora_database.raised
         THEN [dir |-> extractall(dir, z), err |-> create_memora_database.err]
         ELSE [dir |-> extractall(dir, z), err |-> None]

\* An inner except clause that reports the analysis failure as a hard one.
analyzer_error_status_hard == ERROR

\* db_memora.status in the except clause of the inner try (analysis failed).
analyzer_error_status == CONCLUDED_WITH_ANALYZER_ERROR

\* Outer except clauses that report an analyzer error, or set no status.
failure_status_analyzer == CONCLUDED_WITH_ANALYZER_ERROR
failure_status_kept == status

\* db_memora.status in the except clause of the outer try.
failure_status == ERROR

\* A finally clause that removes nothing.
cleanup_skipped(dir, ep) == dir

\* finally: rmtree(extract_path) if the local is set and the directory exists.
cleanup(dir, ep) == IF ep # None /\ dir.exists THEN AbsentDir ELSE dir

\* From the call to the first await: the Datastore check, and on the full
\* path the creation of the working directory.
job_start(j) ==
    /\ pc[j] = "queued"
    /\ IF db_file.exists
       THEN /\ pc' = [pc EXCEPT ![j] = "skip_select"]
            /\ UNCHANGED <<extract_dir, extract_path>>
       ELSE /\ extract_path' = [extract_path EXCEPT ![j] = ExtractPath]
            /\ extract_dir' = [extract_dir EXCEPT !.exists = TRUE]
            /\ pc' = [pc EXCEPT ![j] = "full_select"]
    /\ UNCHANGED <<memora, db_file, zip_file, origin, exc, job_status, processing_seen>>
    /\ UNCHANGED others

\* The job's first await resumes: the history of its request ends.
resumed(j) ==
    /\ origin' = [origin EXCEPT ![j] = None]
    /\ processing_seen' = [processing_seen EXCEPT ![j] = FALSE]

\* Either path, record not found: return, through the finally clause.
job_not_found(j) ==
    /\ pc[j] \in {"skip_select", "full_select"}
    /\ ~Found
    /\ extract_dir' = cleanup(extract_dir, extract_path[j])
    /\ returned(j, NoRow)
    /\ UNCHANGED <<memora, db_file, zip_file>>
    /\ UNCHANGED others

\* A skip path that sets CONCLUDED before it knows what the analysis gives.
skip_analysis_commit_early(run) ==
    LET res == analyze_user(run)
    IN  Record(CONCLUDED, status_message,
               Assigned(1, bio, res, Synthesized),
               Assigned(2, description, res, Synthesized),
               Assigned(3, speak_pattern, res, Synthesized))

\* The skip path, lines 234-240 and 243-246: what the job commits on the
\* record after the Profile Synthesis of run.
skip_analysis_commit(run) ==
    LET res == analyze_user(run)
        new == Synthesized
        ok == KeysRead(res) = 3
    IN  Record(IF ok THEN CONCLUDED ELSE analyzer_error_status,
               IF ok THEN status_message
               ELSE "Error in user analysis: " \o str(AnalysisError(res)),
               Assigned(1, bio, res, new),
               Assigned(2, description, res, new),
               Assigned(3, speak_pattern, res, new))

\* Skip path, record found: Profile Synthesis and the commit of its result,
\* or of the analyzer error.
job_skip_analysis(j, run) ==
    LET r == skip_analysis_commit(run)
    IN  /\ pc[j] = "skip_select"
        /\ Found
        /\ db_file' = UserAnalyzer_connect(db_file)
        /\ bio' = r.bio
        /\ description' = r.description
        /\ speak_pattern' = r.speak_pattern
        /\ status' = r.status
        /\ status_message' = r.status_message
        /\ job_status' = [job_status EXCEPT ![j] = status']
        /\ pc' = [pc EXCEPT ![j] = "skip_commit"]
        /\ resumed(j)
        /\ UNCHANGED <<zip_file, extract_dir, extract_path, exc>>
        /\ UNCHANGED others

\* Full path, record found: the extraction stage up to the exception that
\* ends it, and the select of the except clause.
job_extract(j) ==
    LET r == extraction(extract_dir, zip_file)
    IN  /\ pc[j] = "full_select"
        /\ Found
        /\ r.err # None
        /\ extract_dir' = r.dir
        /\ exc' = [exc EXCEPT ![j] = r.err]
        /\ pc' = [pc EXCEPT ![j] = "except_select"]
        /\ resumed(j)
        /\ UNCHANGED <<memora, db_file, zip_file, extract_path, job_status>>
        /\ UNCHANGED others

\* The except clause of the outer try: the failure is committed on the record.
job_except(j) ==
    /\ pc[j] = "except_select"
    /\ IF Found
       THEN /\ status' = failure_status
            /\ status_message' = "Social media processing failed: " \o str(exc[j])
            /\ job_status' = [job_status EXCEPT ![j] = status']
       ELSE UNCHANGED <<status, status_message, job_status>>
    /\ exc' = [exc EXCEPT ![j] = None]
    /\ pc' = [pc EXCEPT ![j] = "except_commit"]
    /\ UNCHANGED <<bio, description, speak_pattern, files, origin, extract_path,
                   processing_seen>>
    /\ UNCHANGED others

\* The finally clause, after the last commit of either path.
job_finally(j) ==
    /\ pc[j] \in {"skip_commit", "except_commit"}
    /\ extract_dir' = cleanup(extract_dir, extract_path[j])
    /\ returned(j, job_status[j])
    /\ UNCHANGED <<memora, db_file, zip_file>>
    /\ UNCHANGED others

\* ---------------------------------------------------------------- Next
\* The ingestion machine: the record's creation, uploads, jobs and retries.
Next ==
    \/ create_basic_info
    \/ \E j \in Jobs : retry_analysis_begin(j)
    \/ \E j \in Jobs : retry_analysis_none(j)
    \/ \E j \in Jobs, run \in AnalyzerRuns : retry_analysis(j, run)
    \/ \E j \in Jobs : process_social_media_begin(j)
    \/ \E j \in Jobs : process_social_media_none(j)
    \/ \E j \in Jobs : process_social_media_accept(j)
    \/ \E j \in Jobs, a \in Archives : process_social_media_stage(j, a)
    \/ \E j \in Jobs, opened \in BOOLEAN : process_social_media_fail(j, opened)
    \/ \E j \in Jobs, a \in Archives : invoke(j, a)
    \/ \E j \in Jobs : job_start(j)
    \/ \E j \in Jobs : job_not_found(j)
    \/ \E j \in Jobs, run \in AnalyzerRuns : job_skip_analysis(j, run)
    \/ \E j \in Jobs : job_extract(j)
    \/ \E j \in Jobs : job_except(j)
    \/ \E j \in Jobs : job_finally(j)

Spec == Init /\ [][Next]_vars

\* The uploads and the jobs alone.
NextJobs ==
    \/ create_basic_info
    \/ \E j \in Jobs : process_social_media_begin(j)
    \/ \E j \in Jobs : process_social_media_none(j)
    \/ \E j \in Jobs : process_social_media_accept(j)
    \/ \E j \in Jobs, a \in Archives : process_social_media_stage(j, a)
    \/ \E j \in Jobs, opened \in BOOLEAN : process_social_media_fail(j, opened)
    \/ \E j \in Jobs, a \in Archives : invoke(j, a)
    \/ \E j \in Jobs : job_start(j)
    \/ \E j \in Jobs : job_not_found(j)
    \/ \E j \in Jobs, run \in AnalyzerRuns : job_skip_analysis(j, run)
    \/ \E j \in Jobs : job_extract(j)
    \/ \E j \in Jobs : job_except(j)
    \/ \E j \in Jobs : job_finally(j)

\* A job on the event loop is resumed whenever the await it waits on has
\* completed, and every await of the job completes.
JobStep(j) ==
    \/ job_start(j)
    \/ job_not_found(j)
    \/ \E run \in AnalyzerRuns : job_skip_analysis(j, run)
    \/ job_extract(j)
    \/ job_except(j)
    \/ job_finally(j)

FairSpec == Init /\ [][NextJobs]_vars /\ \A j \in Jobs : WF_vars(JobStep(j))

\* The uploads and the jobs when every archive staged is the mixed one.
NextMixed ==
    \/ create_basic_info
    \/ \E j \in Jobs : process_social_media_begin(j)
    \/ \E j \in Jobs : process_social_media_none(j)
    \/ \E j \in Jobs : process_social_media_accept(j)
    \/ \E j \in Jobs : process_social_media_stage(j, MixedZip)
    \/ \E j \in Jobs, opened \in BOOLEAN : process_social_media_fail(j, opened)
    \/ \E j \in Jobs : invoke(j, MixedZip)
    \/ \E j \in Jobs : job_start(j)
    \/ \E j \in Jobs : job_not_found(j)
    \/ \E j \in Jobs, run \in AnalyzerRuns : job_skip_analysis(j, run)
    \/ \E j \in Jobs : job_extract(j)
    \/ \E j \in Jobs : job_except(j)
    \/ \E j \in Jobs : job_finally(j)

SpecMixed == Init /\ [][NextMixed]_vars

\* The ingestion machine with the other writers of the record's status.
NextService ==
    \/ Next
    \/ \E ok \in BOOLEAN : process_video(ok)
    \/ \E m \in UpdatePayloads : update_memora(m)
    \/ delete_memora

SpecService == Init /\ [][NextService]_vars

\* ---------------------------------------------------- MemoraAgent, one turn
START == "__start__"
END == "__end__"

\* A graph whose merge node comes before the similarity search.
edges_merge_first ==
    { <<START, "db_querier">>, <<"db_querier", "combiner">>,
      <<"combiner", "vector_searcher">>, <<"vector_searcher", "final_agent">>,
      <<"final_agent", END>> }

\* workflow.add_edge(...): the graph generate_response compiles.
edges ==
    { <<START, "vector_searcher">>, <<"vector_searcher", "db_querier">>,
      <<"db_querier", "combiner">>, <<"combiner", "final_agent">>,
      <<"final_agent", END>> }

Successor(n) == CHOOSE m \in {e[2] : e \in edges} : <<n, m>> \in edges

\* similarity_search(user_query, k=3) returns at most search_k documents.
search_k == 3

\* doc.metadata.get('full_text', doc.page_content) of a stored document.
Contents == {"", "a", "b"}

\* What self.vectorstore.similarity_search does in a turn: it raises, or it
\* returns a list of documents (here: of their texts).
SearchResults ==
    {[raised |-> TRUE, docs |-> <<>>]} \cup
    [raised : {FALSE}, docs : UNION {[1..n -> Contents] : n \in 0..search_k}]

\* What self.sql_agent.invoke does in a turn.
SqlRuns ==
    { [raised |-> FALSE, output |-> "rows"],
      [raised |-> FALSE, output |-> "I don't know"],
      [raised |-> TRUE, output |-> None] }

\* What chain.invoke (prompt | llm) does in a turn.
LlmRuns ==
    { [raised |-> FALSE, content |-> "reply"],
      [raised |-> TRUE, content |-> None] }

NoDocuments == "No relevant documents found."
Apology ==
    "I apologize, but I'm having trouble generating a response right now. Please try again later."

\* unique_contents: the set the loop over docs fills.
unique_contents(docs) == {docs[i] : i \in DOMAIN docs}

\* The orders in which iterating a set of str can yield its elements (the
\* order follows the strings' hashes, which are salted per process).
Orders(S) ==
    {o \in [1..Cardinality(S) -> S] : \A i, j \in 1..Cardinality(S) : o[i] = o[j] => i = j}

\* sep.join(seq)
RECURSIVE join(_, _)
join(sep, seq) ==
    IF seq = <<>> THEN ""
    ELSE IF Len(seq) = 1 THEN seq[1]
    ELSE seq[1] \o sep \o join(sep, Tail(seq))

\* combiner's two statements: the database part, then the vector part.
merge_vector_first(db, vec) ==
    "Context from vector search: " \o vec \o "\n\nContext from database: " \o db

merge(db, vec) ==
    ("Context from database: " \o db) \o ("\n\nContext from vector search: " \o vec)

\* The text vector_searcher stores for the documents found.
vector_text_joined(docs, order) == join("\n\n", order)

vector_text(docs, order) ==
    IF docs = <<>> THEN NoDocuments ELSE join("\n\n", order)

\* The except clause of generate_response: e is logged, the fallback returned.
except_reraise(e) == [raised |-> TRUE, value |-> e]

except_Exception(e) == Returned(Apology)

\* The questions of the user.
Questions == {"where were you born?", "who are your friends?"}

\* A node that hands on a new state holding its own field alone.
assign_reset(st, field, value) == [initial_state(st.query) EXCEPT ![field] = value]

\* state[field] = value ... return state: the node hands on the state it was
\* given, with its field set.
assign(st, field, value) == [st EXCEPT ![field] = value]

\* generate_response up to app.invoke(initial_state).
generate_response_invoke(question) ==
    /\ node = "idle"
    /\ state' = initial_state(question)
    /\ node' = Successor(START)
    /\ completed' = {}
    /\ turn_exc' = None
    /\ answer' = NoAnswer
    /\ UNCHANGED <<ingestion, handler, batch>>

\* The node returned the state: its successor runs next.
node_returned(n) ==
    /\ completed' = completed \cup {n}
    /\ node' = Successor(n)

\* vector_searcher: no except clause, so what similarity_search raises leaves
\* the node and app.invoke.
vector_searcher(r) ==
    /\ node = "vector_searcher"
    /\ IF r.raised
       THEN /\ turn_exc' = "similarity_search"
            /\ node' = "except"
            /\ UNCHANGED <<state, completed>>
       ELSE /\ \E order \in Orders(unique_contents(r.docs)) :
                 state' = assign(state, "vector_response", vector_text(r.docs, order))
            /\ node_returned("vector_searcher")
            /\ UNCHANGED turn_exc
    /\ UNCHANGED <<answer, ingestion, handler, batch>>

\* db_querier: the except clause turns what the SQL agent raises into text.
db_querier(r) ==
    /\ node = "db_querier"
    /\ state' = assign(state, "db_response",
                       IF r.raised THEN "[Error querying SQL] " \o str("OperationalError")
                       ELSE r.output)
    /\ node_returned("db_querier")
    /\ UNCHANGED <<turn_exc, answer, ingestion, handler, batch>>

combiner ==
    /\ node = "combiner"
    /\ state' = assign(state, "merged_response",
                       merge(state.db_response, state.vector_response))
    /\ node_returned("combiner")
    /\ UNCHANGED <<turn_exc, answer, ingestion, handler, batch>>

\* final_agent: no except clause; what chain.invoke raises leaves app.invoke.
final_agent(r) ==
    /\ node = "final_agent"
    /\ IF r.raised
       THEN /\ turn_exc' = "chain"
            /\ node' = "except"
            /\ UNCHANGED <<state, completed>>
       ELSE /\ state' = assign(state, "output", r.content)
            /\ node_returned("final_agent")
            /\ UNCHANGED turn_exc
    /\ UNCHANGED <<answer, ingestion, handler, batch>>

\* return final_state['output']
generate_response_return ==
    /\ node = END
    /\ answer' = Returned(state.output)
    /\ node' = "idle"
    /\ UNCHANGED <<state, completed, turn_exc, ingestion, handler, batch>>

\* except Exception of generate_response: the fallback string is returned.
generate_response_except ==
    /\ node = "except"
    /\ answer' = except_Exception(turn_exc)
    /\ node' = "idle"
    /\ UNCHANGED <<state, completed, turn_exc, ingestion, handler, batch>>

NextTurn ==
    \/ \E question \in Questions : generate_response_invoke(question)
    \/ \E r \in SearchResults : vector_searcher(r)
    \/ \E r \in SqlRuns : db_querier(r)
    \/ combiner
    \/ \E r \in LlmRuns : final_agent(r)
    \/ generate_response_return
    \/ generate_response_except

SpecTurn == Init /\ [][NextTurn]_vars

\* --------------------------------------- DatabaseHandler: table names
MaxParts == 2      \* parts of a relative path
MaxPartLen == 2    \* characters of a directory name or of a file's stem

AsciiLetters ==
    { "a", "b", "c", "d", "e", "f", "g", "h", "i", "j", "k", "l", "m",
      "n", "o", "p", "q", "r", "s", "t", "u", "v", "w", "x", "y", "z" }
AsciiDigits == {"0", "1", "2", "3", "4", "5", "6", "7", "8", "9"}

\* str.isalpha, str.isdigit and str.isalnum of one character.  They follow
\* the Unicode character classes: "é" is a letter, "²" is a digit.
isalpha(c) == c \in AsciiLetters \cup {"é"}
isdigit(c) == c \in AsciiDigits \cup {"²"}
isalnum(c) == isalpha(c) \/ isdigit(c)

\* The characters of the names in an archive.
PathChars == {"a", "7", "_", "-", ".", "é", "²"}

Names == UNION {[1..n -> PathChars] : n \in 1..MaxPartLen}
\* "." and ".." name no directory.
Directories == Names \ {<<".">>, <<".", ".">>}
\* scan_files hands over the files with suffix .json or .html; a suffix
\* starts at a dot that is not the first character of the name.
JsonFiles == {stem \o <<".", "j", "s", "o", "n">> : stem \in Names}

RelPaths ==
    UNION { {dirs \o <<f>> : dirs \in [1..n -> Directories], f \in JsonFiles} :
            n \in 0..(MaxParts - 1) }

\* name.rfind('.'), counted from 1; 0 when there is no dot.
rfind_dot(name) ==
    LET dots == {i \in DOMAIN name : name[i] = "."}
    IN  IF dots = {} THEN 0 ELSE CHOOSE i \in dots : \A j \in dots : j <= i

\* PurePath.suffix
suffix(name) ==
    LET i == rfind_dot(name)
    IN  IF 1 < i /\ i < Len(name) THEN SubSeq(name, i, Len(name)) ELSE <<>>

\* Path(rel_path).with_suffix('').parts
with_suffix_empty(parts) ==
    LET name == parts[Len(parts)]
    IN  [parts EXCEPT ![Len(parts)] = SubSeq(name, 1, Len(name) - Len(suffix(name)))]

\* '__'.join(path_parts)
RECURSIVE join_parts(_)
join_parts(parts) ==
    IF Len(parts) = 1 THEN parts[1]
    ELSE parts[1] \o <<"_", "_">> \o join_parts(Tail(parts))

\* One character of the generator in line 33.
clean(c) == IF isalnum(c) \/ c = "_" THEN c ELSE "_"

get_table_name_from_path(parts) ==
    LET name == join_parts(with_suffix_empty(parts))
        clean_table_name == [i \in DOMAIN name |-> clean(name[i])]
    IN  IF ~isalpha(clean_table_name[1]) THEN <<"f", "_">> \o clean_table_name
        ELSE clean_table_name

\* The characters of a name as one string.
RECURSIVE text(_)
text(chars) == IF chars = <<>> THEN "" ELSE chars[1] \o text(Tail(chars))

\* A call of get_table_name_from_path on the path drawn.
call_get_table_name_from_path ==
    /\ call = "none"
    /\ rel_path # <<>>
    /\ table_name' = get_table_name_from_path(rel_path)
    /\ call' = "get_table_name_from_path"
    /\ UNCHANGED <<rel_path, structured_file, all_dataframes, media_data, ingestion, turn, batch>>

InitTableName ==
    /\ InitIngestion
    /\ NoTurn
    /\ NoBatch
    /\ rel_path \in RelPaths
    /\ table_name = <<>>
    /\ structured_file = NoFile
    /\ all_dataframes = {}
    /\ media_data = <<>>
    /\ call = "none"

NextTableName == call_get_table_name_from_path

SpecTableName == InitTableName /\ [][NextTableName]_vars

\* ------------------------------- DatabaseHandler: structured files to tables
\* The structured files of the archive of the end-to-end scenario.
JsonPath == << <<"d", "a", "t", "a">>,
               <<"f", "r", "i", "e", "n", "d", "s", ".", "j", "s", "o", "n">> >>
HtmlPath == << <<"d", "a", "t", "a">>,
               <<"f", "r", "i", "e", "n", "d", "s", ".", "h", "t", "m", "l">> >>

\* Path(file).suffix.lower()[1:] of scan_files
extension(parts) == text(Tail(suffix(parts[Len(parts)])))

ObjectA == Dict(<< Member("a", Scalar("1")) >>)
ObjectB == Dict(<< Member("b", Scalar("2")) >>)

\* The values under a key of a top-level object.
JsonValues ==
    { Scalar("1"),
      List(<<>>),
      Dict(<<>>),
      List(<<ObjectA>>),
      List(<<ObjectA, ObjectB>>),
      List(<<Scalar("1"), Scalar("2")>>),
      List(<<ObjectA, Scalar("2")>>),
      List(<<Dict(<<>>)>>),
      ObjectA,
      Dict(<< Member("a", Dict(<<>>)) >>),
      Dict(<< Member("a", ObjectB) >>),
      Dict(<< Member("a", List(<<Scalar("1")>>)) >>) }

JsonDocuments ==
    { Dict(<<>>) }
    \cup { Dict(<< Member("posts", v) >>) : v \in JsonValues }
    \cup { Dict(<< Member("settings", v) >>) : v \in JsonValues }
    \cup { Dict(<< Member("posts", v), Member("settings", w) >>) :
             v \in JsonValues, w \in JsonValues }
    \cup { v \in JsonValues : v.type # "dict" }

JsonContents ==
    { File(d, <<>>, FALSE) : d \in JsonDocuments } \cup { File(Scalar(""), <<>>, TRUE) }

\* The tables pd.read_html finds in a file: with rows, or with a header only.
HtmlFrames ==
    { DataFrame({"name"}, << {<<"name", "A">>} >>),
      DataFrame({"name"}, << {<<"name", "A">>}, {<<"name", "B">>} >>),
      DataFrame({"name"}, <<>>) }

HtmlContents ==
    { File(Scalar(""), t, FALSE) : t \in UNION {[1..n -> HtmlFrames] : n \in 1..2} }
    \cup { File(Scalar(""), <<>>, TRUE) }

\* pd.json_normalize of a list with an element that is no object: pandas
\* from 1.3 on gives that element a row without columns, earlier releases
\* raise AttributeError.  The repository pins no release.
PandasBuilds == {"row_without_columns", "raises"}

\* json.dumps
RECURSIVE json_dumps(_)
json_dumps(v) ==
    IF v.type = "scalar" THEN v.scalar
    ELSE IF v.type = "list"
         THEN "[" \o join(", ", [i \in DOMAIN v.items |-> json_dumps(v.items[i].value)]) \o "]"
    ELSE "{" \o join(", ", [i \in DOMAIN v.items |->
                               "\"" \o v.items[i].key \o "\": " \o json_dumps(v.items[i].value)])
             \o "}"

\* flatten_json, applied to every cell
flatten_json(v) == IF v.type \in {"list", "dict"} THEN json_dumps(v) ELSE v.scalar

new_key(key_string, key) == IF key_string = "" THEN key ELSE key_string \o "." \o key

\* The cells of one flattened record: nested objects become dotted columns,
\* an empty object leaves no column.
RECURSIVE normalise_json(_, _)
normalise_json(v, key_string) ==
    IF v.type = "dict"
    THEN UNION { normalise_json(v.items[i].value, new_key(key_string, v.items[i].key)) :
                 i \in DOMAIN v.items }
    ELSE {<<key_string, flatten_json(v)>>}

\* pd.json_normalize(value) followed by the loop over df.columns.
json_normalize(members, build) ==
    LET row(m) == IF m.value.type = "dict" THEN normalise_json(m.value, "") ELSE {}
        columns == {c[1] : c \in UNION {row(members[i]) : i \in DOMAIN members}}
        \* a record without a column holds NaN there
        filled(r) == r \cup {<<c, "NaN">> : c \in columns \ {d[1] : d \in r}}
    IN  [raised |-> build = "raises" /\ \E i \in DOMAIN members : members[i].value.type # "dict",
         df |-> DataFrame(columns, [i \in DOMAIN members |-> filled(row(members[i]))])]

\* One entry of a dict of DataFrames.
Entry(name, df) == [name |-> name, columns |-> df.columns, rows |-> df.rows]

\* DataFrame.empty
empty(df) == df.rows = <<>> \/ df.columns = {}

\* The frames process_json_file builds before line 90, each with the
\* exception its json_normalize raised.
frames(table, data, build) ==
    IF data.type = "list"
    THEN {[name |-> table, made |-> json_normalize(data.items, build)]}
    ELSE IF data.type = "dict"
    THEN { [name |-> table \o "__" \o data.items[i].key,
            made |-> IF data.items[i].value.type = "list"
                     THEN json_normalize(data.items[i].value.items, build)
                     ELSE json_normalize(<<Member("", data.items[i].value)>>, build)] :
           i \in {n \in DOMAIN data.items :
                    /\ data.items[n].value.type \in {"list", "dict"}
                    /\ data.items[n].value.items # <<>>} }
    ELSE {}

process_json_file(parts, file, build) ==
    LET table == text(get_table_name_from_path(parts))
        dfs == frames(table, file.data, build)
    IN  IF file.malformed THEN {}
        ELSE IF file.data.type = "list" /\ file.data.items = <<>> THEN {}
        ELSE IF \E f \in dfs : f.made.raised THEN {}
        ELSE { Entry(f.name, f.made.df) :
               f \in {g \in dfs : ~empty(g.made.df) /\ g.made.df.columns # {}} }

process_html_file(parts, file) ==
    LET base_table_name == text(get_table_name_from_path(parts))
    IN  IF file.malformed THEN {}
        ELSE { Entry(base_table_name \o "__" \o ToString(i - 1), file.tables[i]) :
               i \in DOMAIN file.tables }

\* all_dataframes.update(dfs)
update(all, dfs) ==
    {e \in all : \A d \in dfs : d.name # e.name} \cup dfs

\* save_dataframes that writes every DataFrame it is given.
skipped_never(df) == FALSE

\* Lines 131-133: the DataFrames save_dataframes passes over.
skipped(df) == empty(df)

\* df.to_sql(table_name, engine, if_exists='replace', index=False)
replace(db, t) ==
    [exists |-> TRUE, tables |-> {u \in db.tables : u.name # t.name} \cup {t}]

\* Lines 136-141: a DataFrame without columns gets the column timestamp.
written(e) ==
    Table(e.name, IF e.columns = {}
                  THEN [i \in DOMAIN e.rows |-> {<<"timestamp", "now">>}]
                  ELSE e.rows)

save_dataframes(db, dataframes) ==
    LET kept == {e \in dataframes : ~skipped(e)}
    IN  [exists |-> db.exists \/ kept # {},
         tables |-> {u \in db.tables : \A e \in kept : e.name # u.name}
                    \cup {written(e) : e \in kept}]

call_process_json_file(build) ==
    /\ call = "none"
    /\ rel_path # <<>>
    /\ extension(rel_path) = "json"
    /\ all_dataframes' = update(all_dataframes, process_json_file(rel_path, structured_file, build))
    /\ call' = "process_json_file"
    /\ UNCHANGED <<rel_path, table_name, structured_file, media_data, ingestion, turn, batch>>

call_process_html_file ==
    /\ call = "none"
    /\ rel_path # <<>>
    /\ extension(rel_path) = "html"
    /\ all_dataframes' = update(all_dataframes, process_html_file(rel_path, structured_file))
    /\ call' = "process_html_file"
    /\ UNCHANGED <<rel_path, table_name, structured_file, media_data, ingestion, turn, batch>>

\* Lines 296-298: if all_dataframes: save_dataframes(...)
call_save_dataframes ==
    /\ call \in {"process_json_file", "process_html_file"}
    /\ all_dataframes # {}
    /\ db_file' = save_dataframes(db_file, all_dataframes)
    /\ call' = "save_dataframes"
    /\ UNCHANGED <<memora, zip_file, extract_dir, jobs, rel_path, table_name,
                   structured_file, all_dataframes, media_data, turn, batch>>

InitTables ==
    /\ InitIngestion
    /\ NoTurn
    /\ NoBatch
    /\ \/ rel_path = JsonPath /\ structured_file \in JsonContents
       \/ rel_path = HtmlPath /\ structured_file \in HtmlContents
    /\ table_name = <<>>
    /\ all_dataframes = {}
    /\ media_data = <<>>
    /\ call = "none"

NextTables ==
    \/ \E build \in PandasBuilds : call_process_json_file(build)
    \/ call_process_html_file
    \/ call_save_dataframes

SpecTables == InitTables /\ [][NextTables]_vars

\* ------------------------------------- DatabaseHandler: media annotations
MaxFolders == 2    \* folders between the working directory and a media file
MaxBatch == 1      \* records in one call of save_media_data

Uploads == <<"u", "p", "l", "o", "a", "d", "s">>
ExtractMemora == <<"e", "x", "t", "r", "a", "c", "t", "_", "m", "e", "m", "o", "r", "a", "_", "1">>
Stories == <<"s", "t", "o", "r", "i", "e", "s">>
Posts == <<"p", "o", "s", "t", "s">>
Profile == <<"p", "r", "o", "f", "i", "l", "e">>
Reels == <<"r", "e", "e", "l", "s">>
Media == <<"m", "e", "d", "i", "a">>
Month202007 == <<"2", "0", "2", "0", "0", "7">>
Year2020 == <<"2", "0", "2", "0">>
Img1 == <<"i", "m", "g", "1", ".", "j", "p", "g">>

\* The list in line 169.
FolderNames == <<Stories, Posts, Profile, Reels>>

\* The folders of an export that hold media.
MediaFolders == {Stories, Posts, Media, Month202007, Year2020}

\* item['path'] of an image found under the working directory.
MediaPaths ==
    { <<Uploads, ExtractMemora>> \o dirs \o <<Img1>> :
      dirs \in UNION {[1..n -> MediaFolders] : n \in 0..MaxFolders} }

\* One record of process_files_batch: the image branch, lines 155-160.
MediaItem(path) == [path |-> path, media_description |-> "a photo", media_type |-> "image"]

MediaBatches ==
    UNION { [1..n -> {MediaItem(q) : q \in MediaPaths}] : n \in 1..MaxBatch }

\* media_files holds the image extensions only (lines 302-304), so every
\* record of the job has media_type "image".
MediaTypes == {"image"}

\* The first element of a sequence for which Test holds; <<>> stands for None.
first_part(parts, Test(_)) ==
    LET found == {i \in DOMAIN parts : Test(parts[i])}
    IN  IF found = {} THEN <<>> ELSE parts[CHOOSE i \in found : \A j \in found : i <= j]

\* part.isdigit() and len(part) == 6
is_date(part) == Len(part) = 6 /\ \A i \in DOMAIN part : isdigit(part[i])

\* Line 164: date
date_of(parts) == first_part(parts, is_date)

\* Lines 167-171: folder_name
folder_name_of(parts) ==
    LET part == first_part(parts, LAMBDA q : \E i \in DOMAIN FolderNames : FolderNames[i] = q)
    IN  IF part = <<>> THEN "others" ELSE text(part)

\* A save_media_data that groups the records without a date as well.
grouped_always(date) == TRUE

\* Line 173: if date
grouped(date) == date # <<>>

\* part.startswith('extract_memora_')
startswith_extract_memora(part) ==
    Len(part) >= 15 /\ SubSeq(part, 1, 15) = SubSeq(ExtractMemora, 1, 15)

\* Line 179: relative_path
relative_path(parts) ==
    join("/", LET kept == SelectSeq(parts, LAMBDA q : ~startswith_extract_memora(q))
              IN  [i \in DOMAIN kept |-> text(kept[i])])

\* Lines 182-202: row_data
row_data(item, media_type) ==
    IF media_type = "audio"
    THEN { <<"date", text(date_of(item.path))>>,
           <<"filename", text(item.path[Len(item.path)])>>,
           <<"text", "">>,
           <<"uri", relative_path(item.path)>>,
           <<"metadata", "{}">>,
           <<"segments", "[]">>,
           <<"language", "">>,
           <<"media_type", item.media_type>> }
    ELSE { <<"date", text(date_of(item.path))>>,
           <<"filename", text(item.path[Len(item.path)])>>,
           <<"description", item.media_description>>,
           <<"uri", relative_path(item.path)>>,
           <<"text", "">>,
           <<"metadata", "{}">>,
           <<"media_type", item.media_type>> }

\* The keys of grouped_data, then of folder_groups, in insertion order.
RECURSIVE distinct(_)
distinct(seq) ==
    IF seq = <<>> THEN <<>>
    ELSE LET front == distinct(SubSeq(seq, 1, Len(seq) - 1))
             last == seq[Len(seq)]
         IN  IF \E i \in DOMAIN front : front[i] = last THEN front ELSE Append(front, last)

grouped_items(data) == SelectSeq(data, LAMBDA item : grouped(date_of(item.path)))

group_key(item) == <<folder_name_of(item.path), date_of(item.path)>>

\* folder_groups[folder]: the rows of the groups of the folder, group by group.
RECURSIVE folder_rows(_, _, _, _)
folder_rows(folder, keys, items, media_type) ==
    IF keys = <<>> THEN <<>>
    ELSE LET of_key == SelectSeq(items, LAMBDA item : group_key(item) = keys[1])
         IN  (IF keys[1][1] = folder
              THEN [i \in DOMAIN of_key |-> row_data(of_key[i], media_type)]
              ELSE <<>>)
             \o folder_rows(folder, Tail(keys), items, media_type)

\* df.to_sql(table_name, engine, if_exists='append', index=False): the rows go
\* below those of the table; a column the table lacks raises.
to_sql_append(db, name, rows) ==
    LET old == {t \in db.tables : t.name = name}
        columns(r) == {c[1] : c \in r}
    IN  IF old = {} THEN [raised |-> FALSE,
                          db |-> [exists |-> TRUE, tables |-> db.tables \cup {Table(name, rows)}]]
        ELSE LET t == CHOOSE u \in old : TRUE
             IN  IF \E i \in DOMAIN rows : columns(rows[i]) # columns(t.rows[1])
                 THEN [raised |-> TRUE, db |-> db]
                 ELSE [raised |-> FALSE,
                       db |-> [exists |-> TRUE,
                               tables |-> (db.tables \ old) \cup {Table(name, t.rows \o rows)}]]

\* Lines 216-227: the loop over folder_groups; an exception ends it.
RECURSIVE save_folders(_, _, _, _, _)
save_folders(db, folders, keys, items, media_type) ==
    IF folders = <<>> THEN db
    ELSE LET r == to_sql_append(db, "media__" \o folders[1],
                                folder_rows(folders[1], keys, items, media_type))
         IN  IF r.raised THEN r.db
             ELSE save_folders(r.db, Tail(folders), keys, items, media_type)

save_media_data(db, media_type, data) ==
    LET items == grouped_items(data)
        keys == distinct([i \in DOMAIN items |-> group_key(items[i])])
        folders == distinct([i \in DOMAIN keys |-> keys[i][1]])
    IN  save_folders(db, folders, keys, items, media_type)

call_save_media_data(media_type) ==
    /\ call = "none"
    /\ media_data # <<>>
    /\ db_file' = save_media_data(db_file, media_type, media_data)
    /\ call' = "save_media_data"
    /\ UNCHANGED <<memora, zip_file, extract_dir, jobs, rel_path, table_name,
                   structured_file, all_dataframes, media_data, turn, batch>>

InitMedia ==
    /\ InitIngestion
    /\ NoTurn
    /\ NoBatch
    /\ rel_path = <<>>
    /\ table_name = <<>>
    /\ structured_file = NoFile
    /\ all_dataframes = {}
    /\ media_data \in MediaBatches
    /\ call = "none"

NextMedia == \E media_type \in MediaTypes : call_save_media_data(media_type)

SpecMedia == InitMedia /\ [][NextMedia]_vars

\* ------------------------------------------------ process_files_batch
MaxFiles == 2      \* files under the working directory

\* str.lower of one ASCII character, and of a name.
UpperCase ==
    << "A", "B", "C", "D", "E", "F", "G", "H", "I", "J", "K", "L", "M",
       "N", "O", "P", "Q", "R", "S", "T", "U", "V", "W", "X", "Y", "Z" >>
LowerCase ==
    << "a", "b", "c", "d", "e", "f", "g", "h", "i", "j", "k", "l", "m",
       "n", "o", "p", "q", "r", "s", "t", "u", "v", "w", "x", "y", "z" >>
lower_char(c) ==
    IF \E i \in DOMAIN UpperCase : UpperCase[i] = c
    THEN LowerCase[CHOOSE i \in DOMAIN UpperCase : UpperCase[i] = c]
    ELSE c
lower(chars) == [i \in DOMAIN chars |-> lower_char(chars[i])]

\* The files of an export: two recordings, two pictures, a film, a note.
BatchNames ==
    { <<"v", ".", "m", "p", "3">>, <<"W", ".", "O", "G", "G">>,
      <<"p", ".", "j", "p", "g">>, <<"Q", ".", "P", "N", "G">>,
      <<"c", ".", "m", "p", "4">>, <<"n", ".", "t", "x", "t">> }

\* The lists of files a directory walk can yield: no name twice.
FileLists ==
    UNION { {l \in [1..n -> BatchNames] : \A i, j \in 1..n : l[i] = l[j] => i = j} :
            n \in 0..MaxFiles }

image_extensions == {".png", ".jpg", ".jpeg", ".gif", ".bmp", ".webp"}
audio_extensions == {".mp3", ".wav", ".ogg"}

\* ext = Path(file_path).suffix.lower()
ext_of(path) == text(lower(suffix(path)))

\* Lines 121-128: the lists the loop over file_paths fills.
image_files_of(paths) == SelectSeq(paths, LAMBDA q : ext_of(q) \in image_extensions)
audio_files_of(paths) ==
    SelectSeq(paths, LAMBDA q : ext_of(q) \notin image_extensions
                                /\ ext_of(q) \in audio_extensions)
image_files == image_files_of(file_paths)
audio_files == audio_files_of(file_paths)

\* scan_files: file_mapping[extension], for an extension among the keys of
\* file_mapping (lines 189-204).
file_mapping(tree, key) ==
    SelectSeq(tree, LAMBDA q : Tail(lower(suffix(q))) = key)

\* Lines 302-304: media_files, the lists of the image extensions one after
\* the other.
media_files(tree) ==
    file_mapping(tree, <<"p", "n", "g">>) \o file_mapping(tree, <<"j", "p", "g">>)
    \o file_mapping(tree, <<"j", "p", "e", "g">>) \o file_mapping(tree, <<"g", "i", "f">>)
    \o file_mapping(tree, <<"b", "m", "p">>) \o file_mapping(tree, <<"w", "e", "b", "p">>)

\* A condition that loads a model family whatever the batch holds.
needed_always(category_files) == TRUE

\* if image_files: / if audio_files: (lines 131, 133)
needed(category_files) == category_files # <<>>

\* What whisper_model.transcribe does with a file: it raises, or it returns
\* its dict of text, segments and language.
TranscribeRuns == {"raises", "dict"}

\* await value: a dict is no awaitable, the await raises TypeError.
awaitable(value) == value \notin {"dict"}

\* The record of an audio file.
AudioRecord(path, metadata, txt, segments, language) ==
    [path |-> path, metadata |-> metadata, text |-> txt, segments |-> segments,
     language |-> language, media_type |-> "audio"]

\* An except clause that keeps the language it had guessed.
process_audio_file_partial(path, run) ==
    AudioRecord(path, "{}", "", <<>>, "en")

\* The try block of process_audio_file raises.
audio_failed(run) == run = "raises" \/ ~awaitable(run)

\* process_audio_file: the record of lines 83-90, or, after any exception,
\* the record of lines 93-100.
process_audio_file(path, run) ==
    IF audio_failed(run)
    THEN AudioRecord(path, "{}", "", <<>>, "")
    ELSE AudioRecord(path, "{length, bitrate, type}", "hello", <<"hello">>, "en")

\* What happens to an image file: Image.open (or reading its attributes)
\* raises; the caption model raises inside get_description_from_image; the
\* caption is made.
ImageRuns == {"unreadable", "caption_raises", "captioned"}

\* get_description_from_image: the caption, "" after any exception.
get_description_from_image(run) == IF run = "caption_raises" THEN "" ELSE "a photo"

\* The record of an image file (lines 159-164).
ImageRecord(path, run) ==
    [path |-> path, metadata |-> "{size, format, mode, type}",
     media_description |-> get_description_from_image(run), media_type |-> "image"]

\* An entry of the history.
Event(kind, family, path, outcome) ==
    [kind |-> kind, family |-> family, path |-> path, outcome |-> outcome]

\* except Exception of process_files_batch (lines 182-184): return [].
batch_except(e) == Returned(<<>>)

\* Lines 105-128: the locals are set and the files are grouped.
batch_called(who, paths) ==
    /\ caller' = who
    /\ file_paths' = paths
    /\ image_model' = None
    /\ whisper_model' = None
    /\ results' = <<>>
    /\ cursor' = 1
    /\ events' = <<>>
    /\ batch_return' = Returned(<<>>)

\* process_files_batch called on the files of the directory as they are.
call_process_files_batch ==
    /\ batch_pc = "none"
    /\ batch_called("direct", walked)
    /\ batch_pc' = "setup_image_model"
    /\ UNCHANGED <<walked, ingestion, turn, handler>>

\* Lines 301-308 of the job: media_files is put together from file_mapping,
\* and process_files_batch is called if it is not empty.
job_media_files ==
    /\ batch_pc = "none"
    /\ batch_called("job", media_files(walked))
    /\ batch_pc' = IF media_files(walked) # <<>> THEN "setup_image_model" ELSE "skipped"
    /\ UNCHANGED <<walked, ingestion, turn, handler>>

\* Lines 131-132: the captioning model is loaded, or loading it raises.
setup_image_model(ok) ==
    /\ batch_pc = "setup_image_model"
    /\ IF ~needed(image_files)
       THEN /\ batch_pc' = "setup_whisper_model"
            /\ UNCHANGED <<image_model, events, batch_return>>
       ELSE /\ events' = Append(events, Event("setup", "image", <<>>,
                                              IF ok THEN "loaded" ELSE "raised"))
            /\ image_model' = IF ok THEN "blip" ELSE image_model
            /\ batch_pc' = IF ok THEN "setup_whisper_model" ELSE "returned"
            /\ batch_return' = IF ok THEN batch_return ELSE batch_except("OSError")
    /\ UNCHANGED <<walked, caller, file_paths, whisper_model, results, cursor>>
    /\ UNCHANGED <<ingestion, turn, handler>>

\* Lines 133-134: the speech-to-text model is loaded, or loading it raises.
setup_whisper_model(ok) ==
    /\ batch_pc = "setup_whisper_model"
    /\ IF ~needed(audio_files)
       THEN /\ batch_pc' = "audio_files"
            /\ UNCHANGED <<whisper_model, events, batch_return>>
       ELSE /\ events' = Append(events, Event("setup", "audio", <<>>,
                                              IF ok THEN "loaded" ELSE "raised"))
            /\ whisper_model' = IF ok THEN "base" ELSE whisper_model
            /\ batch_pc' = IF ok THEN "audio_files" ELSE "returned"
            /\ batch_return' = IF ok THEN batch_return ELSE batch_except("RuntimeError")
    /\ UNCHANGED <<walked, caller, file_paths, image_model, results, cursor>>
    /\ UNCHANGED <<ingestion, turn, handler>>

\* Lines 139-142: one round of the loop over audio_files, or its end.
audio_loop(run) ==
    /\ batch_pc = "audio_files"
    /\ IF cursor <= Len(audio_files)
       THEN LET path == audio_files[cursor]
                result == process_audio_file(path, run)
            IN  /\ results' = Append(results, result)
                /\ events' = Append(events,
                                    Event("file", "audio", path,
                                          IF audio_failed(run) THEN "failed"
                                          ELSE "transcribed"))
                /\ cursor' = cursor + 1
                /\ UNCHANGED batch_pc
       ELSE /\ batch_pc' = "image_files"
            /\ cursor' = 1
            /\ UNCHANGED <<results, events>>
    /\ UNCHANGED <<walked, caller, file_paths, image_model, whisper_model, batch_return>>
    /\ UNCHANGED <<ingestion, turn, handler>>

\* Lines 145-166: one round of the loop over image_files; at its end, lines
\* 180-181: return results.
image_loop(run) ==
    /\ batch_pc = "image_files"
    /\ IF cursor <= Len(image_files)
       THEN LET path == image_files[cursor]
            IN  /\ results' = IF run = "unreadable" THEN results
                               ELSE Append(results, ImageRecord(path, run))
                /\ events' = Append(events, Event("file", "image", path, run))
                /\ cursor' = cursor + 1
                /\ UNCHANGED <<batch_pc, batch_return>>
       ELSE /\ batch_pc' = "returned"
            /\ batch_return' = Returned(results)
            /\ UNCHANGED <<results, events, cursor>>
    /\ UNCHANGED <<walked, caller, file_paths, image_model, whisper_model>>
    /\ UNCHANGED <<ingestion, turn, handler>>

InitBatch ==
    /\ InitIngestion
    /\ NoTurn
    /\ NoCall
    /\ walked \in FileLists
    /\ caller = "none"
    /\ file_paths = <<>>
    /\ image_model = None
    /\ whisper_model = None
    /\ results = <<>>
    /\ cursor = 1
    /\ batch_pc = "none"
    /\ events = <<>>
    /\ batch_return = Returned(<<>>)

NextBatch ==
    \/ call_process_files_batch
    \/ job_media_files
    \/ \E ok \in BOOLEAN : setup_image_model(ok)
    \/ \E ok \in BOOLEAN : setup_whisper_model(ok)
    \/ \E run \in TranscribeRuns : audio_loop(run)
    \/ \E run \in ImageRuns : image_loop(run)

SpecBatch == InitBatch /\ [][NextBatch]_vars

\* ------------------------------------------------------------ properties
\* The statuses a finished job leaves, and the steps of the job in slot j.
Terminal == {CONCLUDED, CONCLUDED_WITH_ANALYZER_ERROR, ERROR}
Step(j) == pc'[j] # pc[j]
SkipPathStep(j) ==
    /\ Step(j)
    /\ \/ pc[j] = "queued" /\ db_file.exists
       \/ pc[j] \in {"skip_select", "skip_commit"}
ProfileStored ==
    /\ bio = Synthesized
    /\ description = Synthesized
    /\ speak_pattern = Synthesized

\* C1: a job that finds the Datastore file when it starts creates no working
\* directory and writes no table in any of its steps, runs Profile Synthesis
\* as soon as it has read the record, and when the analyzer answers with a
\* ProfileSummary stores its three texts on the record with status CONCLUDED.
SkipPathGoesToSynthesis ==
    [][\A j \in Jobs :
         SkipPathStep(j) =>
           /\ extract_dir' = extract_dir
           /\ db_file' = db_file
           /\ extract_path'[j] = None
           /\ pc[j] = "queued" => pc'[j] = "skip_select"
           /\ pc[j] = "skip_select" /\ Found =>
                /\ pc'[j] = "skip_commit"
                /\ status' \in {CONCLUDED, CONCLUDED_WITH_ANALYZER_ERROR}
                /\ status' = CONCLUDED => ProfileStored'
           /\ pc[j] = "skip_select" /\ Found =>
                \A run \in AnalyzerRuns :
                  KeysRead(analyze_user(run)) = 3 /\ job_skip_analysis(j, run) =>
                    status' = CONCLUDED /\ ProfileStored'
      ]_vars

SkipPathStoredSummary ==
    \E j \in Jobs :
        /\ pc[j] = "skip_commit"
        /\ job_status[j] = CONCLUDED
        /\ status = CONCLUDED
        /\ ProfileStored
        /\ db_file = StoredDb
        /\ ~extract_dir.exists

\* C2: a job queued by an upload is queued, and so creates its working
\* directory and extracts, only after the upload's request has committed
\* status PROCESSING_SOCIALMEDIA_DATA.
ProcessingCommittedBeforeExtraction ==
    \A j \in Jobs :
        origin[j] = "upload" /\ pc[j] \in {"queued", "skip_select", "full_select"}
            => processing_seen[j]

UploadJobExtracting ==
    \E j \in Jobs :
        /\ pc[j] = "full_select"
        /\ origin[j] = "upload"
        /\ processing_seen[j]
        /\ extract_path[j] = ExtractPath
        /\ extract_dir.exists

\* C3: an exception raised in the extraction stage takes the job to its outer
\* except clause, which commits status ERROR with a non-empty message; the
\* job then returns without another write to the record.
ExtractionFailureIsError ==
    [][\A j \in Jobs :
         Step(j) =>
           /\ pc[j] = "full_select" /\ Found =>
                pc'[j] = "except_select" /\ exc'[j] # None
           /\ pc[j] = "except_select" /\ Found =>
                /\ pc'[j] = "except_commit"
                /\ status' = ERROR
                /\ status_message' \notin {None, ""}
                /\ job_status'[j] = ERROR
           /\ pc[j] = "except_commit" /\ job_status[j] = ERROR =>
                /\ pc'[j] = "idle"
                /\ job_status'[j] = ERROR
                /\ UNCHANGED memora
      ]_vars

MalformedArchiveIsError ==
    \E j \in Jobs :
        /\ pc[j] = "except_commit"
        /\ job_status[j] = ERROR
        /\ status = ERROR
        /\ status_message = "Social media processing failed: " \o str("BadZipFile")
        /\ zip_file = MalformedZip

\* C4: when Profile Synthesis raises (the agent call fails, the answer does
\* not parse, a key is missing), the job commits
\* CONCLUDED_WITH_ANALYZER_ERROR, never ERROR, returns with that status, and
\* the Datastore's tables and rows are what they were.
AnalyzerFailureIsAnalyzerError ==
    [][\A j \in Jobs :
         /\ Step(j) /\ pc[j] = "skip_select" /\ Found =>
              \A run \in AnalyzerRuns :
                KeysRead(analyze_user(run)) < 3 /\ job_skip_analysis(j, run) =>
                  /\ status' = CONCLUDED_WITH_ANALYZER_ERROR
                  /\ job_status'[j] = CONCLUDED_WITH_ANALYZER_ERROR
                  /\ db_file'.tables = db_file.tables
         /\ Step(j) /\ pc[j] = "skip_commit" =>
              /\ pc'[j] = "idle"
              /\ job_status'[j] = job_status[j]
              /\ job_status[j] # ERROR
              /\ db_file' = db_file
              /\ UNCHANGED memora
      ]_vars

AnalyzerErrorKeepsTables ==
    \E j \in Jobs :
        /\ pc[j] = "idle"
        /\ job_status[j] = CONCLUDED_WITH_ANALYZER_ERROR
        /\ status = CONCLUDED_WITH_ANALYZER_ERROR
        /\ status_message = "Error in user analysis: " \o str("JSONDecodeError")
        /\ bio = NullText
        /\ db_file = StoredDb

\* C5: when a job that created the working directory returns, on whichever
\* path, the working directory does not exist.
WorkingDirRemovedAtJobEnd ==
    [][\A j \in Jobs :
         Step(j) /\ pc'[j] = "idle" /\ extract_path[j] # None
             => ~extract_dir'.exists
      ]_vars

NotFoundJobLeftNoDir ==
    \E j \in Jobs :
        /\ pc[j] = "idle"
        /\ job_status[j] = NoRow
        /\ ~db_file.exists
        /\ ~extract_dir.exists

\* C6: retry_analysis on an identity whose Datastore exists leaves the
\* Datastore's tables and their rows as they were, whether the analysis
\* succeeds or fails.
RetryKeepsDatastore ==
    [][\A j \in Jobs :
         Step(j) /\ pc[j] = "retry_select" /\ db_file.exists => db_file' = db_file
      ]_vars

FailedRetryKeptTables ==
    /\ status = CONCLUDED_WITH_ANALYZER_ERROR
    /\ status_message = "Retry failed: " \o str("JSONDecodeError")
    /\ db_file = StoredDb

\* C7: the record's status changes only along BASIC_INFO_COMPLETED ->
\* VIDEO_INFO_COMPLETED or ERROR_PROCESSING_VIDEO ->
\* PROCESSING_SOCIALMEDIA_DATA -> CONCLUDED, CONCLUDED_WITH_ANALYZER_ERROR or
\* ERROR, whatever service operations and jobs run.
StatusChain ==
    { <<NoRow, BASIC_INFO_COMPLETED>>,
      <<BASIC_INFO_COMPLETED, VIDEO_INFO_COMPLETED>>,
      <<BASIC_INFO_COMPLETED, ERROR_PROCESSING_VIDEO>>,
      <<VIDEO_INFO_COMPLETED, PROCESSING_SOCIALMEDIA_DATA>>,
      <<ERROR_PROCESSING_VIDEO, PROCESSING_SOCIALMEDIA_DATA>> }
    \cup { <<PROCESSING_SOCIALMEDIA_DATA, t>> : t \in Terminal }
StatusFollowsChain ==
    [][status' # status /\ status' # Deleted => <<status, status'>> \in StatusChain]_vars

\* C8: every job that has read the identity's record commits one of
\* CONCLUDED, CONCLUDED_WITH_ANALYZER_ERROR and ERROR, a failure together
\* with its message, keeps that outcome until it returns, and does return.
FailureMessages ==
    { "Error in user analysis: " \o str("Exception"),
      "Social media processing failed: " \o str("Exception") }
InExtraction(j) == pc[j] = "full_select" /\ Found
OneJobInExtraction ==
    \A j, k \in Jobs : InExtraction(j) /\ InExtraction(k) => j = k

\* C10: a job that ingested the friends archive for an identity without a
\* Datastore returns with table data__friends of 2 rows and table
\* media__stories of 1 row whose date is "202007" in the Datastore.
HasTable(db, name, n) == \E t \in db.tables : t.name = name /\ Len(t.rows) = n
FriendsArchiveIngested ==
    [][\A j \in Jobs :
         /\ Step(j)
         /\ pc'[j] = "idle"
         /\ extract_path[j] # None
         /\ Found
         /\ zip_file = FriendsZip
         => /\ HasTable(db_file', "data__friends", 2)
            /\ \E t \in db_file'.tables :
                 /\ t.name = "media__stories"
                 /\ Len(t.rows) = 1
                 /\ <<"date", "202007">> \in t.rows[1]
      ]_vars

\* ------------------------------------------------------ retrieval workflow
\* C11: in every turn the merged context is "Context from database: " +
\* db_response + "\n\n" + "Context from vector search: " + vector_response,
\* the database part first.
MergedContextFormat ==
    "combiner" \in completed =>
        state.merged_response =
            "Context from database: " \o state.db_response \o "\n\n"
                \o "Context from vector search: " \o state.vector_response

\* A turn whose merged context was built from an SQL answer and two documents.
MergedBothContexts ==
    /\ "combiner" \in completed
    /\ state.db_response = "rows"
    /\ state.vector_response = "b\n\na"

\* C12 as stated: once the similarity-search node has run, vector_response is
\* neither null nor the empty string, and it is the marker when the search
\* returned no documents.
VectorResponseNeverEmpty ==
    [][\A r \in SearchResults :
          (vector_searcher(r) /\ ~r.raised) =>
              /\ state'.vector_response \notin {None, ""}
              /\ r.docs = <<>> => state'.vector_response = NoDocuments]_vars

\* C12, amended: once the similarity-search node has run, vector_response is
\* not null; it is the marker when the search returned no documents, and it
\* is the empty string exactly when the search returned documents whose
\* texts are all empty.
VectorResponseMarkerWhenNoDocuments ==
    [][\A r \in SearchResults :
          (vector_searcher(r) /\ ~r.raised) =>
              /\ state'.vector_response # None
              /\ r.docs = <<>> => state'.vector_response = NoDocuments
              /\ state'.vector_response = "" <=>
                     /\ r.docs # <<>>
                     /\ \A i \in DOMAIN r.docs : r.docs[i] = ""]_vars

\* The search returned documents with empty text only.
EmptyTextDocuments ==
    /\ "vector_searcher" \in completed
    /\ state.vector_response = ""

\* C13: the merge node starts only after the similarity-search node and the
\* structured-query node have completed, and the final generation node only
\* after the merge node has completed.
MergeAfterBothRetrievals ==
    /\ (node = "combiner" \/ "combiner" \in completed) =>
           {"vector_searcher", "db_querier"} \subseteq completed
    /\ (node = "final_agent" \/ "final_agent" \in completed) =>
           "combiner" \in completed

\* The final generation node is about to start.
FinalAgentStarts ==
    /\ node = "final_agent"
    /\ {"vector_searcher", "db_querier", "combiner"} \subseteq completed

\* C14 as stated: no failure of the similarity-search node or of the
\* structured-query node leaves the workflow, and a turn whose generation did
\* not fail returns the generated answer, not the fallback apology.
RetrievalFailureDegrades ==
    /\ turn_exc \in {None, "chain"}
    /\ (node = "idle" /\ answer # NoAnswer /\ turn_exc # "chain") =>
           /\ answer = Returned(state.output)
           /\ answer.value # Apology

\* C15: when the final generation node fails, generate_response returns the
\* fixed apology and no exception reaches its caller.
GenerationFailureIsApology ==
    (turn_exc = "chain" /\ node = "idle") => answer = Returned(Apology)

\* A turn that ended after the chain raised.
ApologyReturned ==
    /\ turn_exc = "chain"
    /\ node = "idle"
    /\ "combiner" \in completed
    /\ ~answer.raised

\* ------------------------------------------------------- DatabaseHandler
\* C16 as stated: every table name returned by get_table_name_from_path
\* matches ^[A-Za-z][A-Za-z0-9_]*$: its characters are ASCII letters, ASCII
\* digits or underscores, and the first one is a letter.
TableNameIsAsciiIdentifier ==
    call = "get_table_name_from_path" =>
        /\ table_name # <<>>
        /\ table_name[1] \in AsciiLetters
        /\ \A i \in DOMAIN table_name :
               table_name[i] \in AsciiLetters \cup AsciiDigits \cup {"_"}

\* The members of an object whose value is a non-empty list or object.
NonEmptyMembers(data) ==
    { data.items[i] : i \in {n \in DOMAIN data.items :
                               /\ data.items[n].value.type \in {"list", "dict"}
                               /\ data.items[n].value.items # <<>>} }

\* C17 as stated: for a JSON file whose top-level value is an object,
\* process_json_file returns exactly one table per key whose value is a
\* non-empty list, named <base>__<key> with one row per element, and one
\* one-row table per key whose value is a non-empty object, and no other.
OneTablePerNonEmptyKey ==
    (/\ call = "process_json_file"
     /\ ~structured_file.malformed
     /\ structured_file.data.type = "dict") =>
        /\ {e.name : e \in all_dataframes} =
               {"data__friends__" \o m.key : m \in NonEmptyMembers(structured_file.data)}
        /\ \A e \in all_dataframes, m \in NonEmptyMembers(structured_file.data) :
               e.name = "data__friends__" \o m.key =>
                   Len(e.rows) = IF m.value.type = "list" THEN Len(m.value.items) ELSE 1

\* C18: no table with zero rows or zero columns is in the Datastore: a
\* DataFrame read from a JSON or markup file that has no rows or no columns
\* is not written by save_dataframes.
NoEmptyTableWritten ==
    \A t \in db_file.tables :
        /\ t.rows # <<>>
        /\ \A i \in DOMAIN t.rows : t.rows[i] # {}

\* save_dataframes was given a table without rows and one with rows, and
\* wrote the latter.
EmptyFrameDiscarded ==
    /\ call = "save_dataframes"
    /\ \E e \in all_dataframes : e.rows = <<>> /\ \A t \in db_file.tables : t.name # e.name
    /\ \E e \in all_dataframes : e.rows # <<>> /\ HasTable(db_file, e.name, Len(e.rows))

\* data/friends.json of the end-to-end scenario.
FriendsJson ==
    File(Dict(<< Member("friends", List(<< Dict(<<Member("name", Scalar("A"))>>),
                                          Dict(<<Member("name", Scalar("B"))>>) >>)) >>),
         <<>>, FALSE)

\* C19 as stated: a job that ingested an archive holding a structured file
\* that does not parse (data/broken.json) next to one that does
\* (data/friends.json) returns with the tables of the latter in the Datastore
\* and does not end in ERROR.
MalformedFileSkipped ==
    [][\A j \in Jobs :
         /\ Step(j)
         /\ pc'[j] = "idle"
         /\ extract_path[j] # None
         /\ Found
         /\ zip_file = MixedZip
         => /\ \A e \in process_json_file(JsonPath, FriendsJson, "row_without_columns") :
                  HasTable(db_file', e.name, Len(e.rows))
            /\ job_status'[j] # ERROR
      ]_vars

\* The 6-digit segments and the vocabulary folders of a record's path.
SixDigitSegments(path) ==
    {i \in DOMAIN path : Len(path[i]) = 6 /\ \A n \in 1..6 : path[i][n] \in AsciiDigits}
VocabularyFolders(path) ==
    {i \in DOMAIN path : text(path[i]) \in {"stories", "posts", "profile", "reels"}}
\* The tables that hold a row of the record at path with time bucket d.
TablesHolding(path, d) ==
    { t \in db_file.tables :
        \E n \in DOMAIN t.rows :
            /\ <<"uri", relative_path(path)>> \in t.rows[n]
            /\ <<"date", d>> \in t.rows[n] }
TablesOf(path) ==
    { t \in db_file.tables :
        \E n \in DOMAIN t.rows : <<"uri", relative_path(path)>> \in t.rows[n] }
MediaBucketed(default) ==
    call = "save_media_data" =>
        \A i \in DOMAIN media_data :
            LET path == media_data[i].path
            IN  IF SixDigitSegments(path) = {}
                THEN TablesOf(path) = {}
                ELSE /\ Cardinality(TablesOf(path)) = 1
                     /\ \E t \in TablesOf(path) :
                          /\ \E n \in SixDigitSegments(path) :
                               t \in TablesHolding(path, text(path[n]))
                          /\ IF VocabularyFolders(path) = {}
                             THEN t.name = "media__" \o default
                             ELSE \E n \in VocabularyFolders(path) :
                                    t.name = "media__" \o text(path[n])

\* C20 as stated: a media record whose path has a 6-digit segment is in
\* exactly one table, media__<bucket>, the bucket being the vocabulary folder
\* of its path, else "other", with that segment as its time bucket; a record
\* without such a segment is in no table.
MediaBucketedElseOther == MediaBucketed("other")

\* C20, amended: the same with "others" as the bucket of a record whose path
\* holds no vocabulary folder.
MediaBucketedElseOthers == MediaBucketed("others")

\* A record with a time bucket and no vocabulary folder was saved.
MediaWithoutFolderSaved ==
    /\ call = "save_media_data"
    /\ \E i \in DOMAIN media_data :
         /\ SixDigitSegments(media_data[i].path) # {}
         /\ VocabularyFolders(media_data[i].path) = {}
    /\ \E t \in db_file.tables : t.name = "media__others" /\ Len(t.rows) = 1

\* The records the batch returned for a file, the category of a file, and a
\* model load that raised.
RecordsOf(path) ==
    {i \in DOMAIN batch_return.value : batch_return.value[i].path = path}
category(path) ==
    IF ext_of(path) \in image_extensions THEN "image"
    ELSE IF ext_of(path) \in audio_extensions THEN "audio"
    ELSE "other"
SetupRaised == \E k \in DOMAIN events : events[k].kind = "setup" /\ events[k].outcome = "raised"
BatchRecords(unreadable_kept) ==
    batch_pc = "returned" /\ ~SetupRaised =>
        /\ \A i \in DOMAIN file_paths :
             category(file_paths[i]) # "other" =>
                 \E k \in DOMAIN events :
                     events[k].kind = "file" /\ events[k].path = file_paths[i]
        /\ \A k \in DOMAIN events :
             events[k].kind = "file" =>
                 LET e == events[k]
                     recs == RecordsOf(e.path)
                 IN  IF e.family = "audio"
                     THEN /\ Cardinality(recs) = 1
                          /\ \A i \in recs :
                               /\ batch_return.value[i].media_type = "audio"
                               /\ e.outcome = "failed" =>
                                    /\ batch_return.value[i].text = ""
                                    /\ batch_return.value[i].segments = <<>>
                                    /\ batch_return.value[i].language = ""
                     ELSE IF e.outcome = "unreadable" /\ ~unreadable_kept
                     THEN recs = {}
                     ELSE /\ Cardinality(recs) = 1
                          /\ \A i \in recs :
                               /\ batch_return.value[i].media_type = "image"
                               /\ e.outcome # "captioned" =>
                                    batch_return.value[i].media_description = ""

\* C21 as stated: when no model load raised, process_files_batch goes through
\* every audio and image file of the batch and returns exactly one record for
\* each, with empty text, segments and language for an audio file that failed
\* and an empty description for an image file that failed.
BatchKeepsEveryFile == BatchRecords(TRUE)

\* C21, amended: the same, except that an image file that cannot be opened
\* has no record in the result (an image whose captioning fails has its
\* record, with an empty description).
BatchKeepsReadableFiles == BatchRecords(FALSE)

\* A batch of a recording and a picture returned the recording's empty record
\* alone: the picture could not be opened.
UnreadableImageDropped ==
    /\ batch_pc = "returned"
    /\ Len(file_paths) = 2
    /\ \E k \in DOMAIN events : events[k].family = "image" /\ events[k].outcome = "unreadable"
    /\ \E k \in DOMAIN events : events[k].family = "audio" /\ events[k].outcome = "failed"
    /\ Len(batch_return.value) = 1
    /\ batch_return.value[1].media_type = "audio"
    /\ batch_return.value[1].text = ""

\* C22: in one call of process_files_batch each model family is loaded at
\* most once, only if the batch holds a file of its category, and every file
\* is processed after the load of its family has returned.
ModelsLoadedOncePerBatch ==
    \A f \in {"audio", "image"} :
        LET Setups == {k \in DOMAIN events : events[k].kind = "setup" /\ events[k].family = f}
        IN  /\ Cardinality(Setups) <= 1
            /\ Setups # {} => \E i \in DOMAIN file_paths : category(file_paths[i]) = f
            /\ \A k \in DOMAIN events :
                 events[k].kind = "file" /\ events[k].family = f =>
                     \E j \in Setups : j < k /\ events[j].outcome = "loaded"

\* A batch of a recording and a picture was processed to its end.
MixedBatchProcessed ==
    /\ batch_pc = "returned"
    /\ image_model # None
    /\ whisper_model # None
    /\ \E k \in DOMAIN events : events[k].kind = "file" /\ events[k].family = "audio"
    /\ \E k \in DOMAIN events : events[k].kind = "file" /\ events[k].family = "image"
    /\ Len(batch_return.value) = 2

\* C23: a model load that raises ends the media stage with an exception,
\* which the job's outer except clause turns into status ERROR: it leaves
\* process_files_batch instead of being turned into a result.
ModelInitFailureEscalates ==
    batch_pc = "returned" /\ SetupRaised => batch_return.raised

\* C25: when the media stage of a job is over and no model load raised, the
\* result holds a record of speech-to-text for every audio file the scan
\* found under the working directory.
AudioFilesAnnotated ==
    caller = "job" /\ batch_pc \in {"returned", "skipped"} /\ ~SetupRaised =>
        \A i \in DOMAIN walked :
            ext_of(walked[i]) \in audio_extensions =>
                \E k \in DOMAIN results :
                    results[k].path = walked[i] /\ results[k].media_type = "audio"

\* A retry and a job of the identity are both about to run Profile Synthesis
\* on an existing Datastore.
BothAtAnalysis(j, k) ==
    /\ pc[j] = "retry_select"
    /\ pc[k] = "skip_select"
    /\ Found
    /\ db_file.exists

OwnField ==
    [vector_searcher |-> "vector_response", db_querier |-> "db_response",
     combiner |-> "merged_response", final_agent |-> "output"]

\* C26: a node of the workflow changes no field of the turn state but its
\* own (vector_searcher vector_response, db_querier db_response, combiner
\* merged_response, final_agent output), so query and the persona fields are
\* never changed; db_response is what the SQL agent gave for the query and
\* vector_response the text of the documents found, whatever the other holds.
NodesWriteOwnField ==
    [][/\ node \in DOMAIN OwnField =>
             \A f \in DOMAIN state : f # OwnField[node] => state'[f] = state[f]
       /\ node \notin DOMAIN OwnField /\ node # "idle" => state' = state
       /\ \A r \in SqlRuns :
             db_querier(r) =>
                 state'.db_response =
                     IF r.raised THEN "[Error querying SQL] " \o str("Exception")
                     ELSE r.output
       /\ \A r \in SearchResults :
             vector_searcher(r) /\ ~r.raised =>
                 \E order \in Orders(unique_contents(r.docs)) :
                     state'.vector_response = vector_text(r.docs, order)
      ]_vars

\* Every node of a turn has written its field; the question is still there.
TurnStateComplete ==
    /\ node = END
    /\ state.query = "who are your friends?"
    /\ state.memora_name = "Ana"
    /\ state.vector_response = "a"
    /\ state.db_response = "rows"
    /\ state.merged_response # None
    /\ state.output = "reply"

ProfileUpdateAllOrNothing ==
    [][\A j \in Jobs :
         /\ Step(j)
         /\ pc[j] \in {"skip_select", "retry_select"}
         /\ Found
         /\ status' = CONCLUDED_WITH_ANALYZER_ERROR
         => /\ bio' = bio
            /\ description' = description
            /\ speak_pattern' = speak_pattern
      ]_vars

\* C29: when the uploads and retries of an identity for which an archive was
\* staged have all returned, status CONCLUDED is found only on a Datastore
\* that the inference and annotation stages have filled: the file exists and
\* holds tables.
ConcludedOnIngestedDatastore ==
    /\ status = CONCLUDED
    /\ zip_file # None
    /\ \A j \in Jobs : pc[j] = "idle"
    => db_file.exists /\ db_file.tables # {}

\* C30: the working directory of a job of an existing identity exists from
\* the job's makedirs until the job's own cleanup, whatever other jobs of the
\* identity do.
WorkingDirKeptUntilOwnCleanup ==
    \A j \in Jobs :
        extract_path[j] # None /\ pc[j] # "idle" /\ Found => extract_dir.exists

====
